---- MODULE Spec2Model ----
(***************************************************************************)
(* ZimeDash backend: the role/permission table and its evaluator, the      *)
(* route guards, the task controller (createTask, updateTask, deleteTask,  *)
(* getTaskById) with the project counters totalTasks / completedTasks it   *)
(* maintains, the auth and user controllers (register, login,              *)
(* updateProfile, changePassword, getAllUsers, getUserById, updateUser,    *)
(* updateUserRole, deleteUser) and the project controller (getAllProjects, *)
(* getProjectById, createProject, updateProject, deleteProject) on the     *)
(* document store.                                                         *)
(*                                                                         *)
(* The specifications share the definitions:                               *)
(*   PermSpec    the pure functions hasPermission / hasGlobalAccess and    *)
(*               the requirePermission guard, applied to bounded inputs;   *)
(*   SeqSpec     task requests handled one at a time, each handler run to  *)
(*               its response in one step;                                 *)
(*   NoFailSpec  SeqSpec without the requests whose write fails            *)
(*               validation;                                               *)
(*   UserSpec    auth and user requests, one at a time, from the empty     *)
(*               store;                                                    *)
(*   ProjSpec    project requests, one at a time;                          *)
(*   ProjEditSpec  updateProject and updateTask bodies that carry          *)
(*               protected fields, one request at a time;                  *)
(*   AuthSpec    requests on every kind of route by callers with tokens    *)
(*               issued before an admin changed their accounts, without a  *)
(*               token or with an invalid one, one at a time;              *)
(*   RegSpec     register requests interleaved at their await points;      *)
(*   RaceSpec    updateTask requests to Done on one task, interleaved;     *)
(*   Spec        up to MaxInFlight task requests in flight, interleaved at *)
(*               the handlers' await points (one store operation per       *)
(*               step).                                                    *)
(*                                                                         *)
(* Not modelled: task fields other than status, priority, projectId,       *)
(* assignedTo, createdBy and completedAt; user fields other than role,     *)
(* isActive and email; project fields other than createdBy, members,       *)
(* status, name, description and the two counters; populate(); logging;    *)
(* the value of a timestamp (completedAt is null, a server clock value, or *)
(* a value supplied by the client); the contents of a token other than its *)
(* validity, its user and the role of its payload.                         *)
(***************************************************************************)
EXTENDS Integers, FiniteSets, Sequences, TLC

VARIABLES users, projects, tasks, nextTaskId, created, inflight, last, perm

vars == <<users, projects, tasks, nextTaskId, created, inflight, last, perm>>

(***************************************************************************)
(* Bounds of the model.                                                    *)
(***************************************************************************)
NumTasks == 1
MaxCount == 2
MaxInFlight == 2

(***************************************************************************)
(* JavaScript values.                                                      *)
(***************************************************************************)
Undefined == "undefined"
Null == "null"
Absent == "absent"

(***************************************************************************)
(* config/roles.js                                                         *)
(***************************************************************************)
ROLES == {"admin", "manager", "member"}

Resources == {"projects", "tasks", "users"}

Actions == {"create", "read", "update", "delete"}

PERMISSIONS_ManagerDeletesProjects ==
  [admin   |-> [projects |-> {"create", "read", "update", "delete"},
                tasks    |-> {"create", "read", "update", "delete"},
                users    |-> {"read", "update"},
                global   |-> TRUE],
   manager |-> [projects |-> {"read", "update", "delete"},
                tasks    |-> {"create", "read", "update", "delete"},
                users    |-> {"read"},
                global   |-> FALSE],
   member  |-> [projects |-> {"read"},
                tasks    |-> {"read", "update"},
                users    |-> {"read"},
                global   |-> FALSE]]

PERMISSIONS ==
  [admin   |-> [projects |-> {"create", "read", "update", "delete"},
                tasks    |-> {"create", "read", "update", "delete"},
                users    |-> {"read", "update"},
                global   |-> TRUE],
   manager |-> [projects |-> {"read", "update"},
                tasks    |-> {"create", "read", "update", "delete"},
                users    |-> {"read"},
                global   |-> FALSE],
   member  |-> [projects |-> {"read"},
                tasks    |-> {"read", "update"},
                users    |-> {"read"},
                global   |-> FALSE]]

\* PERMISSIONS[role][resource] as a JavaScript truth value: an array is truthy
\* (even when empty), the boolean under the key 'global' is itself, a key the
\* object does not have is undefined.
Truthy(role, resource) ==
  /\ role \in DOMAIN PERMISSIONS
  /\ resource \in DOMAIN PERMISSIONS[role]
  /\ (resource = "global" => PERMISSIONS[role].global)

\* The result is "true" or "false", or "TypeError" when the call raises:
\* PERMISSIONS.admin.global is the boolean true, which has no includes().
hasPermission(role, resource, action) ==
  IF ~Truthy(role, resource) THEN "false"
  ELSE IF resource = "global" THEN "TypeError"
  ELSE IF action \in PERMISSIONS[role][resource] THEN "true"
  ELSE "false"

hasGlobalAccess_AnyKnownRole(role) == role \in DOMAIN PERMISSIONS

hasGlobalAccess(role) ==
  IF role \in DOMAIN PERMISSIONS THEN PERMISSIONS[role].global ELSE FALSE

(***************************************************************************)
(* middlewares/role.middleware.js: the guard's answer is "next" (the       *)
(* handler runs) or the HTTP status of the rejection.                      *)
(***************************************************************************)
requirePermission(userRole, resource, action) ==
  IF userRole = Undefined THEN "401"
  ELSE LET allowed == hasPermission(userRole, resource, action)
       IN  IF allowed = "TypeError" THEN "500"
           ELSE IF allowed = "false" THEN "403"
           ELSE "next"

requireRole(userRole, requiredRoles) ==
  IF userRole = Undefined THEN "401"
  ELSE IF userRole \notin requiredRoles THEN "403"
  ELSE "next"

(***************************************************************************)
(* The document store.  users, projects and tasks are functions from the   *)
(* ids of the stored documents; an id is never reused: UserOrder and       *)
(* ProjectOrder give the ids in the order in which documents are created,  *)
(* created counts the users and the projects created so far.               *)
(***************************************************************************)
UserOrder == <<"a", "g", "m">>

UserIds == {"a", "g", "m"}

ProjectOrder == <<"p1", "p2">>

ProjectIds == {"p1", "p2"}

\* An id as a request carries it (req.params.id) is a string of hex digits.
\* ObjectId parsing accepts both letter cases; _id.toString() prints lower
\* case.  "A" is the upper-case spelling of the id "a".
castObjectId(param) == IF param = "A" THEN "a" ELSE param

\* An e-mail address: the part before the '@' and the part after it.
Email(local, domain) == [local |-> local, domain |-> domain]

NoEmail == Email(Absent, Absent)

\* String.prototype.toLowerCase on the strings of the model
toLowerCase(str) ==
  CASE str = "ZIME.AI" -> "zime.ai"
    [] str = "D" -> "d"
    [] OTHER -> str

\* models/project.model.js: the enum of status
ProjectStatuses == {"Planned", "In Progress", "Completed", "On Hold", "Cancelled"}

TaskIds == 1..NumTasks

\* models/task.model.js: the enum of status and of priority
Statuses == {"Pending", "Ongoing", "Done", "Blocked"}

Priorities == {"Low", "Medium", "High"}

\* What a request snapshot holds when findById returned null.
NoTask ==
  [status |-> Absent, priority |-> Absent, projectId |-> Absent,
   assignedTo |-> Absent, createdBy |-> Absent, completedAt |-> Null]

\* A request body: every modelled key, Absent when the body does not carry it.
NoBody ==
  [status |-> Absent, priority |-> Absent, completedAt |-> Absent,
   projectId |-> Absent, assignedTo |-> Absent]

BodyKeys == {"status", "priority", "completedAt", "projectId", "assignedTo"}

\* Object.keys(updateData)
Keys(body) == {k \in BodyKeys : body[k] # Absent}

AllBodies ==
  [status      : Statuses \cup {"Bogus", Absent},
   priority    : {"High", "Bogus", Absent},
   completedAt : {Null, "client", Absent},
   projectId   : ProjectIds \cup {Absent},
   assignedTo  : {"a", "m", Absent}]

\* The bodies the update requests of the model carry: status, priority and
\* completedAt in every combination of at most one key, and status Done or
\* Pending together with one other key.
UpdateBodies ==
  {b \in AllBodies :
     /\ b.projectId = Absent /\ b.assignedTo = Absent
     /\ \/ Cardinality(Keys(b)) <= 1
        \/ Cardinality(Keys(b)) = 2 /\ b.status \in {"Done", "Pending"}}

\* The bodies of the create requests (a title is always present; completedAt
\* is not among the fields createTask reads): a task of project p1 with any
\* status, a task of the missing project p2, a task without assignedTo.
CreateBodies ==
  {b \in AllBodies :
     /\ b.completedAt = Absent /\ b.priority = Absent
     /\ b.status \in {Absent, "Pending", "Done", "Bogus"}
     /\ b.projectId # Absent
     /\ b.projectId = "p2" => b.assignedTo = "m" /\ b.status = Absent
     /\ b.assignedTo = Absent => b.status = Absent}

\* The accounts the task and project specifications start from: a registered
\* first (admin), g and m after it (member), and g made manager by a.
InitUsers ==
  [u \in UserIds |->
     [role |-> CASE u = "a" -> "admin" [] u = "g" -> "manager" [] OTHER -> "member",
      isActive |-> TRUE,
      email |-> Email(u, "x.com")]]

\* What a request snapshot holds when no project was found.
NoProject ==
  [createdBy |-> Absent, members |-> {}, status |-> Absent, name |-> Absent,
   description |-> Absent, totalTasks |-> 0, completedTasks |-> 0]

\* The project p1, created by the admin a with no members.
InitProjects ==
  [p \in {"p1"} |->
     [createdBy |-> "a", members |-> {}, status |-> "Planned", name |-> "Alpha",
      description |-> "web", totalTasks |-> 0, completedTasks |-> 0]]

Store == [users |-> users, projects |-> projects, tasks |-> tasks,
          nextTaskId |-> nextTaskId, created |-> created]

\* Project.findByIdAndUpdate(id, { $inc: { totalTasks: dt, completedTasks: dc } }):
\* one atomic write; nothing happens when no project has the id.
IncProject(ps, id, dt, dc) ==
  IF id \in DOMAIN ps
  THEN [ps EXCEPT ![id].totalTasks = @ + dt, ![id].completedTasks = @ + dc]
  ELSE ps

\* The schema validators that runValidators / Task.create apply to the
\* modelled fields: status and priority are enums.
ValidFields(status, priority) ==
  /\ status \in Statuses \cup {Absent}
  /\ priority \in Priorities \cup {Absent}

\* Task.findByIdAndUpdate(id, updateData): every key of the body is $set.
ApplyUpdate(t, body) ==
  [status      |-> IF body.status # Absent THEN body.status ELSE t.status,
   priority    |-> IF body.priority # Absent THEN body.priority ELSE t.priority,
   projectId   |-> IF body.projectId # Absent THEN body.projectId ELSE t.projectId,
   assignedTo  |-> IF body.assignedTo # Absent THEN body.assignedTo ELSE t.assignedTo,
   createdBy   |-> t.createdBy,
   completedAt |-> IF body.completedAt # Absent THEN body.completedAt ELSE t.completedAt]

(***************************************************************************)
(* A request in flight: the operation and its inputs, the position in the  *)
(* handler (pc), what the handler has read so far, and the response.       *)
(* pc: "guard" (authenticate and the route's guard), "find" (the first     *)
(* read of the handler), "inc" (the project counter write), "write" (the   *)
(* task write), "done" (a response has been sent).                         *)
(***************************************************************************)
\* The inputs of a user or auth request (req.body): Absent for a key the
\* body does not carry; password is "ok" when it is the account's password.
NoUserBody == [email |-> NoEmail, role |-> Absent, isActive |-> Absent, password |-> Absent]

\* The inputs of a project request (req.body, and req.query of the listing)
\* The keys createdBy, totalTasks and completedTasks as a body carries them:
\* Absent, or the value; a counter is the empty set or the set of its value.
NoProtected == [createdBy |-> Absent, totalTasks |-> {}, completedTasks |-> {}]

\* top holds the three keys at the top level of the body, set the same keys
\* under the update operator "$set" of the body.
NoProjectBody ==
  [name |-> Absent, description |-> Absent, status |-> Absent, members |-> {},
   search |-> Absent, top |-> NoProtected, set |-> NoProtected]

\* The token of a request (the Authorization header): whether verifyToken
\* accepts it, and the role in its payload (generateToken({ userId, email,
\* role })), Undefined where the model does not follow it.  A request
\* without a token has the actor Absent.
ValidToken == [valid |-> TRUE, role |-> Undefined]

\* id is the task id of a task request, target the id parameter of a user or
\* project request, ubody / pbody the inputs of a user / project request,
\* userCount what countDocuments returned, result the projects a listing
\* returned.
Idle ==
  [op |-> "none", actor |-> Absent, id |-> 0, body |-> NoBody, pc |-> "idle",
   role |-> Undefined, cur |-> NoTask, dTotal |-> 0, dCompleted |-> 0,
   code |-> "", msg |-> "",
   target |-> Absent, ubody |-> NoUserBody, pbody |-> NoProjectBody,
   userCount |-> 0, result |-> {}, token |-> ValidToken]

NewRequest(op, actor, id, body) ==
  [Idle EXCEPT !.op = op, !.actor = actor, !.id = id, !.body = body, !.pc = "guard"]

Respond(r, code, msg) == [r EXCEPT !.pc = "done", !.code = code, !.msg = msg]

\* The (resource, action) each task route requires.
RouteAction(op) ==
  CASE op = "createTask" -> "create"
    [] op = "updateTask" -> "update"
    [] op = "deleteTask" -> "delete"
    [] OTHER -> "read"

\* The operations of routes/task.routes.js, routes/project.routes.js,
\* routes/user.routes.js and routes/auth.routes.js.
TaskOps == {"createTask", "updateTask", "deleteTask", "getTaskById"}

UserOps == {"updateUser", "updateUserRole", "deleteUser"}

\* The auth routes without authenticate.
PublicOps == {"register", "login"}

\* The guard a route places after authenticate.
RouteGuard_UpdateUserByPermission(op, userRole) ==
  CASE op \in TaskOps -> requirePermission(userRole, "tasks", RouteAction(op))
    [] op \in {"getAllProjects", "getProjectById"} ->
         requirePermission(userRole, "projects", "read")
    [] op \in {"createProject", "deleteProject"} -> requireRole(userRole, {"admin"})
    [] op = "updateUser" -> requirePermission(userRole, "users", "read")
    [] op = "updateProject" -> requirePermission(userRole, "projects", "update")
    [] op \in {"getAllUsers", "getUserById"} -> requirePermission(userRole, "users", "read")
    [] op \in UserOps -> requireRole(userRole, {"admin"})
    [] OTHER -> "next"

RouteGuard_ManagerDeletesProjects(op, userRole) ==
  CASE op \in TaskOps -> requirePermission(userRole, "tasks", RouteAction(op))
    [] op \in {"getAllProjects", "getProjectById"} ->
         requirePermission(userRole, "projects", "read")
    [] op = "deleteProject" -> requirePermission(userRole, "projects", "update")
    [] op = "createProject" -> requireRole(userRole, {"admin"})
    [] op = "updateProject" -> requirePermission(userRole, "projects", "update")
    [] op \in {"getAllUsers", "getUserById"} -> requirePermission(userRole, "users", "read")
    [] op \in UserOps -> requireRole(userRole, {"admin"})
    [] OTHER -> "next"

RouteGuard(op, userRole) ==
  CASE op \in TaskOps -> requirePermission(userRole, "tasks", RouteAction(op))
    [] op \in {"getAllProjects", "getProjectById"} ->
         requirePermission(userRole, "projects", "read")
    [] op \in {"createProject", "deleteProject"} -> requireRole(userRole, {"admin"})
    [] op = "updateProject" -> requirePermission(userRole, "projects", "update")
    [] op \in {"getAllUsers", "getUserById"} -> requirePermission(userRole, "users", "read")
    [] op \in UserOps -> requireRole(userRole, {"admin"})
    [] OTHER -> "next"

\* A user or auth request; the public routes have no guard.
NewUserRequest(op, actor, target, ubody) ==
  [Idle EXCEPT !.op = op, !.actor = actor, !.target = target, !.ubody = ubody,
               !.pc = IF op \in PublicOps THEN "find" ELSE "guard"]

NewProjectRequest(op, actor, target, pbody) ==
  [Idle EXCEPT !.op = op, !.actor = actor, !.target = target, !.pbody = pbody,
               !.pc = "guard"]

\* authenticate, then the route's guard: the test for the token, verifyToken,
\* the lookup of the user of the token and the isActive test, then the guard
\* on the role of the user as stored.
GuardStep_RoleFromToken(st, r) ==
  IF r.actor = Absent
  THEN [st |-> st, r |-> Respond(r, "401", "No token provided")]
  ELSE IF ~r.token.valid
  THEN [st |-> st, r |-> Respond(r, "401", "Invalid token")]
  ELSE IF r.actor \notin DOMAIN st.users
  THEN [st |-> st, r |-> Respond(r, "401", "User not found")]
  ELSE IF ~st.users[r.actor].isActive
  THEN [st |-> st, r |-> Respond(r, "401", "User account is deactivated")]
  ELSE LET role == r.token.role
           g == RouteGuard(r.op, role)
       IN  IF g = "next"
           THEN [st |-> st, r |-> [r EXCEPT !.role = role, !.pc = "find"]]
           ELSE [st |-> st,
                 r |-> Respond([r EXCEPT !.role = role], g,
                               IF g = "403" THEN "Insufficient permissions"
                               ELSE IF g = "401" THEN "Authentication required"
                               ELSE "Permission authorization failed")]

GuardStep_NoActiveTest(st, r) ==
  IF r.actor = Absent
  THEN [st |-> st, r |-> Respond(r, "401", "No token provided")]
  ELSE IF ~r.token.valid
  THEN [st |-> st, r |-> Respond(r, "401", "Invalid token")]
  ELSE IF r.actor \notin DOMAIN st.users
  THEN [st |-> st, r |-> Respond(r, "401", "User not found")]
  ELSE LET role == st.users[r.actor].role
           g == RouteGuard(r.op, role)
       IN  IF g = "next"
           THEN [st |-> st, r |-> [r EXCEPT !.role = role, !.pc = "find"]]
           ELSE [st |-> st,
                 r |-> Respond([r EXCEPT !.role = role], g,
                               IF g = "403" THEN "Insufficient permissions"
                               ELSE IF g = "401" THEN "Authentication required"
                               ELSE "Permission authorization failed")]

GuardStep(st, r) ==
  IF r.actor = Absent
  THEN [st |-> st, r |-> Respond(r, "401", "No token provided")]
  ELSE IF ~r.token.valid
  THEN [st |-> st, r |-> Respond(r, "401", "Invalid token")]
  ELSE IF r.actor \notin DOMAIN st.users
  THEN [st |-> st, r |-> Respond(r, "401", "User not found")]
  ELSE IF ~st.users[r.actor].isActive
  THEN [st |-> st, r |-> Respond(r, "401", "User account is deactivated")]
  ELSE LET role == st.users[r.actor].role
           g == RouteGuard(r.op, role)
       IN  IF g = "next"
           THEN [st |-> st, r |-> [r EXCEPT !.role = role, !.pc = "find"]]
           ELSE [st |-> st,
                 r |-> Respond([r EXCEPT !.role = role], g,
                               IF g = "403" THEN "Insufficient permissions"
                               ELSE IF g = "401" THEN "Authentication required"
                               ELSE "Permission authorization failed")]

(***************************************************************************)
(* controllers/task.controller.js: updateTask                              *)
(***************************************************************************)
\* The member restriction: "" when the request may go on, else the message
\* of the 403 answer.
memberDenial_FieldsFirst(userRole, userId, currentTask, updateData) ==
  IF userRole # "member" THEN ""
  ELSE IF \E field \in Keys(updateData) : field \notin {"status"}
  THEN "Members can only update task status"
  ELSE IF currentTask.assignedTo # userId
  THEN "Members can only update their own assigned tasks"
  ELSE ""

memberDenial_PriorityAllowed(userRole, userId, currentTask, updateData) ==
  IF userRole # "member" THEN ""
  ELSE IF currentTask.assignedTo # userId
  THEN "Members can only update their own assigned tasks"
  ELSE IF \E field \in Keys(updateData) : field \notin {"status", "priority"}
  THEN "Members can only update task status"
  ELSE ""

memberDenial(userRole, userId, currentTask, updateData) ==
  IF userRole # "member" THEN ""
  ELSE IF currentTask.assignedTo # userId
  THEN "Members can only update their own assigned tasks"
  ELSE IF \E field \in Keys(updateData) : field \notin {"status"}
  THEN "Members can only update task status"
  ELSE ""

\* "Handle task completion": the change of completedTasks the handler issues,
\* decided from the body and the task as it was read.  A body without status
\* has updateData.status === undefined, which is !== 'Done'.
completionDelta(updateData, currentTask) ==
  IF updateData.status = "Done" /\ currentTask.status # "Done" THEN 1
  ELSE IF updateData.status # "Done" /\ currentTask.status = "Done" THEN -1
  ELSE 0

\* Task.findById, the member restriction, and the completion branch up to its
\* await: updateData.completedAt is assigned before the counter write is sent.
updateTaskFind(st, r) ==
  IF r.id \notin DOMAIN st.tasks
  THEN [st |-> st, r |-> Respond(r, "404", "Task not found")]
  ELSE LET currentTask == st.tasks[r.id]
           deny == memberDenial(r.role, r.actor, currentTask, r.body)
           d == completionDelta(r.body, currentTask)
           updateData ==
             IF d = 1 THEN [r.body EXCEPT !.completedAt = "server"]
             ELSE IF d = -1 THEN [r.body EXCEPT !.completedAt = Null]
             ELSE r.body
       IN  IF deny # ""
           THEN [st |-> st, r |-> Respond([r EXCEPT !.cur = currentTask], "403", deny)]
           ELSE [st |-> st,
                 r |-> [r EXCEPT !.cur = currentTask, !.body = updateData,
                                 !.dCompleted = d,
                                 !.pc = IF d = 0 THEN "write" ELSE "inc"]]

\* Project.findByIdAndUpdate(currentTask.projectId, { $inc: { completedTasks } })
updateTaskInc(st, r) ==
  [st |-> [st EXCEPT !.projects = IncProject(@, r.cur.projectId, 0, r.dCompleted)],
   r |-> [r EXCEPT !.pc = "write"]]

\* Task.findByIdAndUpdate(id, updateData, { new: true, runValidators: true }):
\* a value outside an enum throws before anything is written; a task that is
\* gone yields null and the handler still answers 200.
updateTaskWrite(st, r) ==
  IF ~ValidFields(r.body.status, r.body.priority)
  THEN [st |-> st, r |-> Respond(r, "error", "ValidationError")]
  ELSE IF r.id \notin DOMAIN st.tasks
  THEN [st |-> st, r |-> Respond(r, "200", "Task updated successfully")]
  ELSE [st |-> [st EXCEPT !.tasks[r.id] = ApplyUpdate(@, r.body)],
        r |-> Respond(r, "200", "Task updated successfully")]

(***************************************************************************)
(* controllers/task.controller.js: createTask                              *)
(***************************************************************************)
\* The required fields, then Project.findById(projectId).
createTaskFind(st, r) ==
  IF r.body.projectId = Absent \/ r.body.assignedTo = Absent
  THEN [st |-> st, r |-> Respond(r, "400", "Title, project ID, and assigned user are required")]
  ELSE IF r.body.projectId \notin DOMAIN st.projects
  THEN [st |-> st, r |-> Respond(r, "404", "Project not found")]
  ELSE [st |-> st, r |-> [r EXCEPT !.pc = "write"]]

\* Task.create({...}): status || 'Pending', priority || 'Medium', createdBy the
\* caller; completedAt is not passed and takes the schema default null.
createTaskWrite(st, r) ==
  LET status == IF r.body.status = Absent THEN "Pending" ELSE r.body.status
      priority == IF r.body.priority = Absent THEN "Medium" ELSE r.body.priority
      task == [status |-> status, priority |-> priority,
               projectId |-> r.body.projectId, assignedTo |-> r.body.assignedTo,
               createdBy |-> r.actor, completedAt |-> Null]
      id == st.nextTaskId
  IN  IF ~ValidFields(status, priority)
      THEN [st |-> st, r |-> Respond(r, "error", "ValidationError")]
      ELSE [st |-> [st EXCEPT !.tasks = (id :> task) @@ @, !.nextTaskId = @ + 1],
            r |-> [r EXCEPT !.id = id, !.cur = task, !.dTotal = 1, !.pc = "inc"]]

\* Project.findByIdAndUpdate(projectId, { $inc: { totalTasks: 1 } })
createTaskInc(st, r) ==
  [st |-> [st EXCEPT !.projects = IncProject(@, r.body.projectId, r.dTotal, 0)],
   r |-> Respond(r, "201", "Task created successfully")]

(***************************************************************************)
(* controllers/task.controller.js: deleteTask                              *)
(***************************************************************************)
deleteTaskFind_CompletedAlways(st, r) ==
  IF r.id \notin DOMAIN st.tasks
  THEN [st |-> st, r |-> Respond(r, "404", "Task not found")]
  ELSE LET task == st.tasks[r.id]
       IN  [st |-> st,
            r |-> [r EXCEPT !.cur = task, !.dTotal = -1, !.dCompleted = -1,
                            !.pc = "inc"]]

deleteTaskFind(st, r) ==
  IF r.id \notin DOMAIN st.tasks
  THEN [st |-> st, r |-> Respond(r, "404", "Task not found")]
  ELSE LET task == st.tasks[r.id]
       IN  [st |-> st,
            r |-> [r EXCEPT !.cur = task, !.dTotal = -1,
                            !.dCompleted = IF task.status = "Done" THEN -1 ELSE 0,
                            !.pc = "inc"]]

\* Project.findByIdAndUpdate(task.projectId, { $inc: { totalTasks, completedTasks } })
deleteTaskInc(st, r) ==
  [st |-> [st EXCEPT !.projects = IncProject(@, r.cur.projectId, r.dTotal, r.dCompleted)],
   r |-> [r EXCEPT !.pc = "write"]]

\* Task.findByIdAndDelete(id)
deleteTaskWrite(st, r) ==
  [st |-> [st EXCEPT !.tasks = [i \in DOMAIN @ \ {r.id} |-> @[i]]],
   r |-> Respond(r, "200", "Task deleted successfully")]

(***************************************************************************)
(* controllers/auth.controller.js: register, login, updateProfile,         *)
(* changePassword                                                          *)
(***************************************************************************)
\* User.findOne({ email }): the match is on the exact string.
UsersWithEmail(us, email) == {u \in DOMAIN us : us[u].email = email}

\* email.toLowerCase().endsWith('@zime.ai')
isZimeEmail(email) == toLowerCase(email.domain) = "zime.ai"

\* role: (isFirstUser || isZimeEmail) ? 'admin' : 'member'
registrationRole_FirstUserOnly(userCount, email) ==
  IF userCount = 0 THEN "admin" ELSE "member"

registrationRole(userCount, email) ==
  IF userCount = 0 \/ isZimeEmail(email) THEN "admin" ELSE "member"

\* The required fields and the password rules pass; User.findOne({ email }).
registerFind(st, r) ==
  IF UsersWithEmail(st.users, r.ubody.email) # {}
  THEN [st |-> st, r |-> Respond(r, "400", "User with this email already exists")]
  ELSE [st |-> st, r |-> [r EXCEPT !.pc = "count"]]

\* User.countDocuments()
registerCount(st, r) ==
  [st |-> st, r |-> [r EXCEPT !.userCount = Cardinality(DOMAIN st.users), !.pc = "write"]]

\* User.create({ name, email, password, role }): the role of the body is not
\* read; isActive takes the schema default; the unique index on email
\* rejects a second document with the same address.
registerWrite(st, r) ==
  LET n == st.created.users
      id == IF n < Len(UserOrder) THEN UserOrder[n + 1] ELSE Absent
      user == [role |-> registrationRole(r.userCount, r.ubody.email),
               isActive |-> TRUE,
               email |-> r.ubody.email]
  IN  IF UsersWithEmail(st.users, r.ubody.email) # {}
      THEN [st |-> st, r |-> Respond(r, "error", "E11000 duplicate key")]
      ELSE [st |-> [st EXCEPT !.users = (id :> user) @@ @, !.created.users = @ + 1],
            r |-> Respond([r EXCEPT !.target = id], "201", "User registered successfully")]

\* User.findOne({ email }), the isActive test and the password comparison.
loginFind(st, r) ==
  LET found == UsersWithEmail(st.users, r.ubody.email)
  IN  IF found = {}
      THEN [st |-> st, r |-> Respond(r, "401", "Invalid email or password")]
      ELSE LET user == CHOOSE u \in found : TRUE
           IN  IF ~st.users[user].isActive
               THEN [st |-> st, r |-> Respond(r, "401", "Account is deactivated")]
               ELSE IF r.ubody.password # "ok"
               THEN [st |-> st, r |-> Respond(r, "401", "Invalid email or password")]
               ELSE [st |-> st, r |-> [r EXCEPT !.target = user, !.pc = "write"]]

\* user.lastLogin = new Date(); user.save(): save() writes the modified
\* paths only, and lastLogin is none of the modelled fields.
loginWrite(st, r) == [st |-> st, r |-> Respond(r, "200", "Login successful")]

\* User.findByIdAndUpdate(req.user._id, { name, avatar }): none of the
\* modelled fields is among the keys the handler copies.
updateProfileWrite(st, r) ==
  [st |-> st, r |-> Respond(r, "200", "Profile updated successfully")]

\* User.findById(userId).select('+password') and the password comparison; a
\* user deleted since authenticate makes user.password raise.
changePasswordFind(st, r) ==
  IF r.actor \notin DOMAIN st.users
  THEN [st |-> st, r |-> Respond(r, "error", "TypeError")]
  ELSE IF r.ubody.password # "ok"
  THEN [st |-> st, r |-> Respond(r, "400", "Current password is incorrect")]
  ELSE [st |-> st, r |-> [r EXCEPT !.pc = "write"]]

\* user.password = hashedNewPassword; user.save()
changePasswordWrite(st, r) ==
  [st |-> st, r |-> Respond(r, "200", "Password changed successfully")]

(***************************************************************************)
(* controllers/user.controller.js: updateUser, updateUserRole, deleteUser  *)
(***************************************************************************)
\* req.user._id.toString(): the lower-case hex string, which is how the model
\* writes an id.
idToString(id) == id

\* The updateData of updateUser applied to a user: if (email) ..., if (role)
\* ..., if (isActive !== undefined) ...
applyUserUpdate_RoleFromEmail(user, b) ==
  [role     |-> IF b.role # Absent THEN b.role
                ELSE IF b.email # NoEmail THEN registrationRole(1, b.email)
                ELSE user.role,
   isActive |-> IF b.isActive # Absent THEN b.isActive = "true" ELSE user.isActive,
   email    |-> IF b.email # NoEmail THEN b.email ELSE user.email]

applyUserUpdate(user, b) ==
  [role     |-> IF b.role # Absent THEN b.role ELSE user.role,
   isActive |-> IF b.isActive # Absent THEN b.isActive = "true" ELSE user.isActive,
   email    |-> IF b.email # NoEmail THEN b.email ELSE user.email]

\* User.findByIdAndUpdate(id, updateData, { new: true, runValidators: true }):
\* a role outside the enum fails validation; an e-mail another user has
\* fails on the unique index.
updateUserWrite(st, r) ==
  LET id == castObjectId(r.target)
  IN  IF r.ubody.role \notin ROLES \cup {Absent}
      THEN [st |-> st, r |-> Respond(r, "error", "ValidationError")]
      ELSE IF id \notin DOMAIN st.users
      THEN [st |-> st, r |-> Respond(r, "404", "User not found")]
      ELSE IF UsersWithEmail(st.users, r.ubody.email) \ {id} # {}
      THEN [st |-> st, r |-> Respond(r, "error", "E11000 duplicate key")]
      ELSE [st |-> [st EXCEPT !.users[id] = applyUserUpdate(@, r.ubody)],
            r |-> Respond(r, "200", "User updated successfully")]

\* The role check, the self-demotion check, User.findByIdAndUpdate(id, { role })
updateUserRoleWrite(st, r) ==
  LET id == castObjectId(r.target)
  IN  IF r.ubody.role \notin {"admin", "manager", "member"}
      THEN [st |-> st, r |-> Respond(r, "400", "Invalid role")]
      ELSE IF r.target = idToString(r.actor) /\ r.ubody.role # "admin"
      THEN [st |-> st, r |-> Respond(r, "400", "You cannot change your own admin role")]
      ELSE IF id \notin DOMAIN st.users
      THEN [st |-> st, r |-> Respond(r, "404", "User not found")]
      ELSE [st |-> [st EXCEPT !.users[id].role = r.ubody.role],
            r |-> Respond(r, "200", "User role updated")]

\* The self check, User.findByIdAndDelete(id)
deleteUserWrite(st, r) ==
  LET id == castObjectId(r.target)
  IN  IF r.target = idToString(r.actor)
      THEN [st |-> st, r |-> Respond(r, "400", "You cannot delete your own account")]
      ELSE IF id \notin DOMAIN st.users
      THEN [st |-> st, r |-> Respond(r, "404", "User not found")]
      ELSE [st |-> [st EXCEPT !.users = [u \in DOMAIN @ \ {id} |-> @[u]]],
            r |-> Respond(r, "200", "User deleted successfully")]

(***************************************************************************)
(* controllers/task.controller.js: getTaskById                             *)
(***************************************************************************)
getTaskByIdFind(st, r) ==
  IF r.id \notin DOMAIN st.tasks
  THEN [st |-> st, r |-> Respond(r, "404", "Task not found")]
  ELSE [st |-> st, r |-> Respond([r EXCEPT !.cur = st.tasks[r.id]], "200", "")]

(***************************************************************************)
(* controllers/project.controller.js: getAllProjects, getProjectById,      *)
(* createProject, deleteProject                                            *)
(***************************************************************************)
\* { $regex: search, $options: 'i' } on the texts of the model: the search
\* term occurs in the text, letter case ignored.
regexTest(search, text) ==
  <<search, text>> \in {<<"alpha", "Alpha">>, <<"alpha", "alpha tools">>, <<"web", "web">>}

\* The query getAllProjects builds, evaluated on one project: the $or on
\* createdBy and members.user unless the role has global access, the status
\* when one is given, and under $and the $or of the two regular expressions
\* when a search term is given.
projectQuery_SearchReplacesScope(project, userId, userRole, status, search) ==
  /\ (hasGlobalAccess(userRole) \/ search # Absent)
       \/ project.createdBy = userId
       \/ userId \in project.members
  /\ status # Absent => project.status = status
  /\ search # Absent
       => regexTest(search, project.name) \/ regexTest(search, project.description)

projectQuery(project, userId, userRole, status, search) ==
  /\ hasGlobalAccess(userRole)
       \/ project.createdBy = userId
       \/ userId \in project.members
  /\ status # Absent => project.status = status
  /\ search # Absent
       => regexTest(search, project.name) \/ regexTest(search, project.description)

\* Project.find(query)
getAllProjectsFind(st, r) ==
  LET found == {p \in DOMAIN st.projects :
                  projectQuery(st.projects[p], r.actor, r.role,
                               r.pbody.status, r.pbody.search)}
  IN  [st |-> st, r |-> Respond([r EXCEPT !.result = found], "200", "")]

\* Project.findById(id)
getProjectByIdFind(st, r) ==
  IF castObjectId(r.target) \notin DOMAIN st.projects
  THEN [st |-> st, r |-> Respond(r, "404", "Project not found")]
  ELSE [st |-> st, r |-> Respond(r, "200", "")]

\* The required fields, then Project.create({...}): status || 'Planned',
\* createdBy the caller, the members as given; totalTasks and completedTasks
\* take the schema default 0.
createProjectWrite(st, r) ==
  LET n == st.created.projects
      id == IF n < Len(ProjectOrder) THEN ProjectOrder[n + 1] ELSE Absent
      status == IF r.pbody.status = Absent THEN "Planned" ELSE r.pbody.status
      project == [createdBy |-> r.actor, members |-> r.pbody.members,
                  status |-> status, name |-> r.pbody.name,
                  description |-> r.pbody.description,
                  totalTasks |-> 0, completedTasks |-> 0]
  IN  IF r.pbody.name = Absent \/ r.pbody.description = Absent
      THEN [st |-> st, r |-> Respond(r, "400", "Name and description are required")]
      ELSE IF status \notin ProjectStatuses
      THEN [st |-> st, r |-> Respond(r, "error", "ValidationError")]
      ELSE [st |-> [st EXCEPT !.projects = (id :> project) @@ @,
                              !.created.projects = @ + 1],
            r |-> Respond([r EXCEPT !.target = id], "201", "Project created successfully")]

\* The value a key of updateData gives to a field: Mongoose puts the top-level
\* keys into the $set of the update, next to the keys the body has under
\* "$set" itself.
updatedField(old, top, set) ==
  IF top # Absent THEN top ELSE IF set # Absent THEN set ELSE old

updatedCounter(old, top, set) ==
  IF top # {} THEN CHOOSE n \in top : TRUE
  ELSE IF set # {} THEN CHOOSE n \in set : TRUE
  ELSE old

\* updateData = req.body without its keys createdBy, totalTasks and
\* completedTasks, then Project.findByIdAndUpdate(id, updateData, { new: true,
\* runValidators: true }).
updateProjectWrite(st, r) ==
  LET id == castObjectId(r.target)
      updateData == [r.pbody EXCEPT !.top = NoProtected]
  IN  IF updateData.status \notin ProjectStatuses \cup {Absent}
      THEN [st |-> st, r |-> Respond(r, "error", "ValidationError")]
      ELSE IF id \notin DOMAIN st.projects
      THEN [st |-> st, r |-> Respond(r, "404", "Project not found")]
      ELSE LET old == st.projects[id]
               new == [createdBy |-> updatedField(old.createdBy, updateData.top.createdBy,
                                                  updateData.set.createdBy),
                       members |-> IF updateData.members # {} THEN updateData.members
                                   ELSE old.members,
                       status |-> updatedField(old.status, updateData.status, Absent),
                       name |-> updatedField(old.name, updateData.name, Absent),
                       description |-> updatedField(old.description,
                                                    updateData.description, Absent),
                       totalTasks |-> updatedCounter(old.totalTasks,
                                                     updateData.top.totalTasks,
                                                     updateData.set.totalTasks),
                       completedTasks |-> updatedCounter(old.completedTasks,
                                                         updateData.top.completedTasks,
                                                         updateData.set.completedTasks)]
           IN  [st |-> [st EXCEPT !.projects[id] = new],
                r |-> Respond(r, "200", "Project updated successfully")]

\* Project.findById(id)
deleteProjectFind(st, r) ==
  IF castObjectId(r.target) \notin DOMAIN st.projects
  THEN [st |-> st, r |-> Respond(r, "404", "Project not found")]
  ELSE [st |-> st, r |-> [r EXCEPT !.pc = "cascade"]]

\* Task.deleteMany({ projectId: id })
deleteProjectCascade_Nothing(st, r) ==
  [st |-> st, r |-> [r EXCEPT !.pc = "write"]]

deleteProjectCascade(st, r) ==
  LET gone == {t \in DOMAIN st.tasks : st.tasks[t].projectId = castObjectId(r.target)}
  IN  [st |-> [st EXCEPT !.tasks = [t \in DOMAIN @ \ gone |-> @[t]]],
       r |-> [r EXCEPT !.pc = "write"]]

\* Project.findByIdAndDelete(id)
deleteProjectWrite(st, r) ==
  [st |-> [st EXCEPT !.projects = [p \in DOMAIN @ \ {castObjectId(r.target)} |-> @[p]]],
   r |-> Respond(r, "200", "Project and associated tasks deleted successfully")]

(***************************************************************************)
(* controllers/user.controller.js: getAllUsers, getUserById                *)
(***************************************************************************)
\* User.find(query) with no filter; result holds the ids of the users found.
getAllUsersFind(st, r) ==
  [st |-> st, r |-> Respond([r EXCEPT !.result = DOMAIN st.users], "200", "")]

\* User.findById(id)
getUserByIdFind(st, r) ==
  IF castObjectId(r.target) \notin DOMAIN st.users
  THEN [st |-> st, r |-> Respond(r, "404", "User not found")]
  ELSE [st |-> st, r |-> Respond(r, "200", "")]

(***************************************************************************)
(* One step of a request: from one await of its handler to the next.       *)
(***************************************************************************)
Step(x) ==
  LET st == x.st
      r == x.r
  IN  CASE r.pc = "guard" -> GuardStep(st, r)
        [] r.pc = "find" /\ r.op = "updateTask" -> updateTaskFind(st, r)
        [] r.pc = "inc" /\ r.op = "updateTask" -> updateTaskInc(st, r)
        [] r.pc = "write" /\ r.op = "updateTask" -> updateTaskWrite(st, r)
        [] r.pc = "find" /\ r.op = "createTask" -> createTaskFind(st, r)
        [] r.pc = "write" /\ r.op = "createTask" -> createTaskWrite(st, r)
        [] r.pc = "inc" /\ r.op = "createTask" -> createTaskInc(st, r)
        [] r.pc = "find" /\ r.op = "deleteTask" -> deleteTaskFind(st, r)
        [] r.pc = "inc" /\ r.op = "deleteTask" -> deleteTaskInc(st, r)
        [] r.pc = "write" /\ r.op = "deleteTask" -> deleteTaskWrite(st, r)
        [] r.pc = "find" /\ r.op = "getTaskById" -> getTaskByIdFind(st, r)
        [] r.pc = "find" /\ r.op = "getAllProjects" -> getAllProjectsFind(st, r)
        [] r.pc = "find" /\ r.op = "getProjectById" -> getProjectByIdFind(st, r)
        [] r.pc = "find" /\ r.op = "createProject" -> createProjectWrite(st, r)
        [] r.pc = "find" /\ r.op = "updateProject" -> updateProjectWrite(st, r)
        [] r.pc = "find" /\ r.op = "deleteProject" -> deleteProjectFind(st, r)
        [] r.pc = "cascade" /\ r.op = "deleteProject" -> deleteProjectCascade(st, r)
        [] r.pc = "write" /\ r.op = "deleteProject" -> deleteProjectWrite(st, r)
        [] r.pc = "find" /\ r.op = "register" -> registerFind(st, r)
        [] r.pc = "count" /\ r.op = "register" -> registerCount(st, r)
        [] r.pc = "write" /\ r.op = "register" -> registerWrite(st, r)
        [] r.pc = "find" /\ r.op = "login" -> loginFind(st, r)
        [] r.pc = "write" /\ r.op = "login" -> loginWrite(st, r)
        [] r.pc = "find" /\ r.op = "updateProfile" -> updateProfileWrite(st, r)
        [] r.pc = "find" /\ r.op = "changePassword" -> changePasswordFind(st, r)
        [] r.pc = "write" /\ r.op = "changePassword" -> changePasswordWrite(st, r)
        [] r.pc = "find" /\ r.op = "updateUser" -> updateUserWrite(st, r)
        [] r.pc = "find" /\ r.op = "updateUserRole" -> updateUserRoleWrite(st, r)
        [] r.pc = "find" /\ r.op = "deleteUser" -> deleteUserWrite(st, r)
        [] r.pc = "find" /\ r.op = "getAllUsers" -> getAllUsersFind(st, r)
        [] r.pc = "find" /\ r.op = "getUserById" -> getUserByIdFind(st, r)
        [] OTHER -> x

\* A handler run from the guard to its response with no other request in
\* between: the guard and at most three steps of the handler.
Run(x) ==
  LET x1 == Step(x)
      x2 == Step(x1)
      x3 == Step(x2)
  IN  Step(x3)

\* The cap on the counters and on the task ids that keeps the model finite.
InBounds(st) ==
  /\ st.nextTaskId <= NumTasks + 1
  /\ st.created.users <= Len(UserOrder)
  /\ st.created.projects <= Len(ProjectOrder)
  /\ \A p \in DOMAIN st.projects :
       /\ st.projects[p].totalTasks \in -MaxCount..MaxCount
       /\ st.projects[p].completedTasks \in -MaxCount..MaxCount

(***************************************************************************)
(* Initial state: the accounts and one project exist, no task does.        *)
(***************************************************************************)
Slots == 1..MaxInFlight

NoUsers == [u \in {} |-> Absent]

NoLast ==
  [op |-> "none", actor |-> Absent, role |-> Undefined, id |-> 0, body |-> NoBody,
   code |-> "", msg |-> "",
   target |-> Absent, ubody |-> NoUserBody, pbody |-> NoProjectBody, result |-> {},
   token |-> ValidToken,
   preTasks |-> [i \in {} |-> NoTask], preProjects |-> InitProjects,
   preUsers |-> InitUsers]

PermIdle ==
  [role |-> Undefined, resource |-> "projects", action |-> "read",
   allowed |-> "pending", guard |-> "pending", global |-> "pending"]

StoreInit ==
  /\ users = InitUsers
  /\ projects = InitProjects
  /\ tasks = [i \in {} |-> NoTask]
  /\ nextTaskId = 1
  /\ created = [users |-> Len(UserOrder), projects |-> 1]
  /\ inflight = [s \in Slots |-> Idle]
  /\ last = NoLast

Init == StoreInit /\ perm = PermIdle

StoreIs(st) ==
  /\ users' = st.users
  /\ projects' = st.projects
  /\ tasks' = st.tasks
  /\ nextTaskId' = st.nextTaskId
  /\ created' = st.created

(***************************************************************************)
(* SeqSpec: one request at a time.  Each action is a whole request, from   *)
(* the route's guards to the response; last records the request, its       *)
(* response and the tasks and projects as they were before it.             *)
(***************************************************************************)
HandleRequest(req) ==
  \E x \in {Run([st |-> Store, r |-> req])} :
      /\ InBounds(x.st)
      /\ StoreIs(x.st)
      /\ last' = [op |-> req.op, actor |-> req.actor, role |-> x.r.role, id |-> x.r.id,
                  body |-> req.body, code |-> x.r.code, msg |-> x.r.msg,
                  target |-> req.target, ubody |-> req.ubody, pbody |-> req.pbody,
                  result |-> x.r.result, token |-> req.token,
                  preTasks |-> tasks, preProjects |-> projects,
                  preUsers |-> users]
      /\ UNCHANGED <<inflight, perm>>

Handle(op, actor, id, body) == HandleRequest(NewRequest(op, actor, id, body))

CreateTask(actor, body) == Handle("createTask", actor, 0, body)

UpdateTask(actor, id, body) == Handle("updateTask", actor, id, body)

DeleteTask(actor, id) == Handle("deleteTask", actor, id, NoBody)

SeqNext ==
  \E actor \in UserIds :
    \/ \E body \in CreateBodies : CreateTask(actor, body)
    \/ \E id \in TaskIds, body \in UpdateBodies : UpdateTask(actor, id, body)
    \/ \E id \in TaskIds : DeleteTask(actor, id)

SeqSpec == Init /\ [][SeqNext]_vars

\* NoFailSpec: one request at a time, and no request carries a value that a
\* schema validator rejects, so that no store write fails.
ValidBody(body) == ValidFields(body.status, body.priority)

NoFailNext ==
  \E actor \in UserIds :
    \/ \E body \in {b \in CreateBodies : ValidBody(b)} : CreateTask(actor, body)
    \/ \E id \in TaskIds, body \in {b \in UpdateBodies : ValidBody(b)} :
         UpdateTask(actor, id, body)
    \/ \E id \in TaskIds : DeleteTask(actor, id)

NoFailSpec == Init /\ [][NoFailNext]_vars

(***************************************************************************)
(* UserSpec: the auth and user requests, one at a time, starting from the  *)
(* empty store.  A request carries the token of the actor it names, or no  *)
(* token (actor Absent).                                                   *)
(***************************************************************************)
NoProjects == [p \in {} |-> NoProject]

UserInit ==
  /\ users = NoUsers
  /\ projects = NoProjects
  /\ tasks = [i \in {} |-> NoTask]
  /\ nextTaskId = 1
  /\ created = [users |-> 0, projects |-> 0]
  /\ inflight = [s \in Slots |-> Idle]
  /\ last = [NoLast EXCEPT !.preProjects = NoProjects, !.preUsers = NoUsers]
  /\ perm = PermIdle

\* The actors of the requests: the first two accounts, and nobody.
Actors == {"a", "g", Absent}

\* The id parameters of the requests: the first two accounts, and the first
\* one's id in upper case.
Targets == {"a", "g", "A"}

\* The bodies of the register requests: the four addresses, and a role some
\* clients add to the body.
RegisterBodies ==
  {[NoUserBody EXCEPT !.email = Email("a", "x.com"), !.password = "ok"],
   [NoUserBody EXCEPT !.email = Email("b", "zime.ai"), !.password = "ok"],
   [NoUserBody EXCEPT !.email = Email("c", "x.com"), !.role = "admin", !.password = "ok"],
   [NoUserBody EXCEPT !.email = Email("D", "ZIME.AI"), !.password = "ok"]}

LoginBodies ==
  {[NoUserBody EXCEPT !.email = Email("a", "x.com"), !.password = "ok"],
   [NoUserBody EXCEPT !.email = Email("a", "x.com"), !.password = "wrong"],
   [NoUserBody EXCEPT !.email = Email("b", "zime.ai"), !.password = "ok"]}

\* The bodies of updateUser: one key each, a role or an address.
UpdateUserBodies ==
  {[NoUserBody EXCEPT !.role = role] : role \in {"admin", "manager", "Bogus"}}
    \cup {[NoUserBody EXCEPT !.email = e] : e \in {Email("b", "zime.ai"), Email("c", "x.com")}}

UpdateRoleBodies ==
  {[NoUserBody EXCEPT !.role = role] : role \in {"admin", "member", "Bogus"}}

Register(ubody) == HandleRequest(NewUserRequest("register", Absent, Absent, ubody))

Login(ubody) == HandleRequest(NewUserRequest("login", Absent, Absent, ubody))

UpdateProfile(actor) ==
  HandleRequest(NewUserRequest("updateProfile", actor, Absent, NoUserBody))

ChangePassword(actor, ubody) ==
  HandleRequest(NewUserRequest("changePassword", actor, Absent, ubody))

UpdateUser(actor, target, ubody) ==
  HandleRequest(NewUserRequest("updateUser", actor, target, ubody))

UpdateUserRole(actor, target, ubody) ==
  HandleRequest(NewUserRequest("updateUserRole", actor, target, ubody))

DeleteUser(actor, target) ==
  HandleRequest(NewUserRequest("deleteUser", actor, target, NoUserBody))

UserNext ==
  \/ \E ubody \in RegisterBodies : Register(ubody)
  \/ \E ubody \in LoginBodies : Login(ubody)
  \/ \E actor \in Actors :
       \/ UpdateProfile(actor)
       \/ ChangePassword(actor, [NoUserBody EXCEPT !.password = "ok"])
       \/ \E target \in Targets :
            \/ \E ubody \in UpdateUserBodies : UpdateUser(actor, target, ubody)
            \/ \E ubody \in UpdateRoleBodies : UpdateUserRole(actor, target, ubody)
            \/ DeleteUser(actor, target)

UserSpec == UserInit /\ [][UserNext]_vars

(***************************************************************************)
(* AuthSpec: requests of every kind of route, one at a time, by callers    *)
(* whose tokens were issued in the initial state (a admin, g manager, m    *)
(* member), while an admin changes roles, deactivates and deletes          *)
(* accounts; and by callers without a token or with a token verifyToken    *)
(* rejects.                                                                *)
(***************************************************************************)
\* The token user u holds: issued at login in the initial state.
HeldToken(u) == [valid |-> TRUE, role |-> InitUsers[u].role]

Callers ==
  {[actor |-> u, token |-> HeldToken(u)] : u \in UserIds}
    \cup {[actor |-> Absent, token |-> ValidToken],
          [actor |-> "g", token |-> [valid |-> FALSE, role |-> "manager"]]}

By(c, req) == [req EXCEPT !.actor = c.actor, !.token = c.token]

\* The bodies of updateUser: a role, or the deactivation of the account.
AdminBodies ==
  {[NoUserBody EXCEPT !.role = "admin"], [NoUserBody EXCEPT !.role = "member"],
   [NoUserBody EXCEPT !.isActive = "false"]}

AuthTaskBody == [NoBody EXCEPT !.projectId = "p1", !.assignedTo = "m"]

AuthProjectBody == [NoProjectBody EXCEPT !.name = "Beta", !.description = "alpha tools"]

AuthNext ==
  \E c \in Callers :
    \/ HandleRequest(By(c, NewRequest("createTask", Absent, 0, AuthTaskBody)))
    \/ \E id \in TaskIds :
         \/ HandleRequest(By(c, NewRequest("updateTask", Absent, id,
                                           [NoBody EXCEPT !.status = "Done"])))
         \/ HandleRequest(By(c, NewRequest("deleteTask", Absent, id, NoBody)))
         \/ HandleRequest(By(c, NewRequest("getTaskById", Absent, id, NoBody)))
    \/ HandleRequest(By(c, NewProjectRequest("createProject", Absent, Absent,
                                             AuthProjectBody)))
    \/ HandleRequest(By(c, NewUserRequest("getAllUsers", Absent, Absent, NoUserBody)))
    \/ HandleRequest(By(c, NewUserRequest("getUserById", Absent, "g", NoUserBody)))
    \/ HandleRequest(By(c, NewUserRequest("deleteUser", Absent, "m", NoUserBody)))
    \/ \E ubody \in AdminBodies :
         HandleRequest(By(c, NewUserRequest("updateUser", Absent, "g", ubody)))

AuthSpec == Init /\ [][AuthNext]_vars

(***************************************************************************)
(* ProjSpec: the project requests, one at a time.  The store starts with   *)
(* the three accounts and the project p1, which g created as an admin      *)
(* before being made manager.                                              *)
(***************************************************************************)
ProjInitProjects ==
  [p \in {"p1"} |-> [InitProjects[p] EXCEPT !.createdBy = "g"]]

ProjInit ==
  /\ users = InitUsers
  /\ projects = ProjInitProjects
  /\ tasks = [i \in {} |-> NoTask]
  /\ nextTaskId = 1
  /\ created = [users |-> Len(UserOrder), projects |-> 1]
  /\ inflight = [s \in Slots |-> Idle]
  /\ last = [NoLast EXCEPT !.preProjects = ProjInitProjects]
  /\ perm = PermIdle

\* The bodies of createProject: the project Beta with or without the member
\* m, with a status or without, or with a status outside the enum.
\* The three keys with values of the client's choosing.
ClientProtected == [createdBy |-> "m", totalTasks |-> {2}, completedTasks |-> {2}]

CreateProjectBodies ==
  {[NoProjectBody EXCEPT !.name = "Beta", !.description = "alpha tools",
                         !.members = ms, !.status = status] :
     ms \in {{}, {"m"}}, status \in {Absent, "Completed", "Bogus"}}
    \cup {[NoProjectBody EXCEPT !.name = "Beta", !.description = "alpha tools",
                                !.top = ClientProtected]}

\* The bodies of updateProject: a status, the three keys at the top level,
\* the three keys under "$set".
UpdateProjectBodies ==
  {[NoProjectBody EXCEPT !.status = "Completed"],
   [NoProjectBody EXCEPT !.top = ClientProtected],
   [NoProjectBody EXCEPT !.set = ClientProtected]}

\* The bodies of the updateTask requests of this specification: the task is
\* given the project p1 or p2.
ProjMoveBodies == {[NoBody EXCEPT !.projectId = p] : p \in ProjectIds}

\* The filters of the listing (req.query)
ListQueries ==
  {[NoProjectBody EXCEPT !.status = status, !.search = search] :
     status \in {Absent, "Planned", "Completed"}, search \in {Absent, "alpha", "web"}}

\* The tasks the project requests find in the store: one of p1 or of p2.
ProjTaskBodies ==
  {[NoBody EXCEPT !.projectId = p, !.assignedTo = "m"] : p \in ProjectIds}

CreateProject(actor, pbody) ==
  HandleRequest(NewProjectRequest("createProject", actor, Absent, pbody))

DeleteProject(actor, target) ==
  HandleRequest(NewProjectRequest("deleteProject", actor, target, NoProjectBody))

GetAllProjects(actor, pbody) ==
  HandleRequest(NewProjectRequest("getAllProjects", actor, Absent, pbody))

GetProjectById(actor, target) ==
  HandleRequest(NewProjectRequest("getProjectById", actor, target, NoProjectBody))

GetTaskById(actor, id) == Handle("getTaskById", actor, id, NoBody)

UpdateProject(actor, target, pbody) ==
  HandleRequest(NewProjectRequest("updateProject", actor, target, pbody))

ProjNext ==
  \E actor \in UserIds :
    \/ \E pbody \in CreateProjectBodies : CreateProject(actor, pbody)
    \/ \E target \in ProjectIds : DeleteProject(actor, target)
    \/ \E pbody \in ListQueries : GetAllProjects(actor, pbody)
    \/ \E target \in ProjectIds : GetProjectById(actor, target)
    \/ \E id \in TaskIds : GetTaskById(actor, id)
    \/ \E body \in ProjTaskBodies : CreateTask(actor, body)

ProjSpec == ProjInit /\ [][ProjNext]_vars

\* ProjEditSpec: the requests that write a project or move a task, one at a
\* time, from the same initial store.
ProjEditNext ==
  \E actor \in UserIds :
    \/ \E pbody \in CreateProjectBodies : CreateProject(actor, pbody)
    \/ \E target \in ProjectIds, pbody \in UpdateProjectBodies :
         UpdateProject(actor, target, pbody)
    \/ \E body \in ProjTaskBodies : CreateTask(actor, body)
    \/ \E id \in TaskIds, body \in ProjMoveBodies : UpdateTask(actor, id, body)

ProjEditSpec == ProjInit /\ [][ProjEditNext]_vars

(***************************************************************************)
(* Spec: requests in flight together, one store operation per step.        *)
(***************************************************************************)
\* The requests of the interleaved specification.
ConcBodies ==
  {b \in UpdateBodies :
     /\ b.completedAt = Absent /\ b.projectId = Absent /\ b.assignedTo = Absent
     /\ b.status \in {"Done", "Pending", Absent}
     /\ b.priority \in {"Bogus", Absent}}

ConcCreateBodies ==
  {b \in CreateBodies : b.projectId = "p1" /\ b.assignedTo = "m" /\ b.status # "Bogus"}

\* Creates that have not yet taken their task id.
PendingCreates ==
  {s \in Slots : inflight[s].op = "createTask" /\ inflight[s].pc \in {"guard", "find", "write"}}

Start(s, op, actor, id, body) ==
  /\ inflight[s].pc = "idle"
  /\ op = "createTask" => nextTaskId + Cardinality(PendingCreates) <= NumTasks
  /\ inflight' = [inflight EXCEPT ![s] = NewRequest(op, actor, id, body)]
  /\ UNCHANGED <<users, projects, tasks, nextTaskId, created, last, perm>>

Advance(s, pc) ==
  /\ inflight[s].pc = pc
  /\ LET x == Step([st |-> Store, r |-> inflight[s]])
     IN  /\ InBounds(x.st)
         /\ StoreIs(x.st)
         /\ inflight' = [inflight EXCEPT ![s] = x.r]
  /\ UNCHANGED <<last, perm>>

Guard(s) == Advance(s, "guard")

Find(s) == Advance(s, "find")

Inc(s) == Advance(s, "inc")

Write(s) == Advance(s, "write")

Finish(s) ==
  /\ inflight[s].pc = "done"
  /\ inflight' = [inflight EXCEPT ![s] = Idle]
  /\ UNCHANGED <<users, projects, tasks, nextTaskId, created, last, perm>>

Next ==
  \E s \in Slots :
    \/ \E actor \in {"a", "m"} :
         \/ \E body \in ConcCreateBodies : Start(s, "createTask", actor, 0, body)
         \/ \E id \in TaskIds, body \in ConcBodies : Start(s, "updateTask", actor, id, body)
         \/ \E id \in TaskIds : Start(s, "deleteTask", actor, id, NoBody)
    \/ Guard(s)
    \/ Find(s)
    \/ Inc(s)
    \/ Write(s)
    \/ Finish(s)

Spec == Init /\ [][Next]_vars

(***************************************************************************)
(* RegSpec: register requests against an empty store, interleaved at the   *)
(* awaits of the handler: User.findOne, User.countDocuments, User.create.  *)
(***************************************************************************)
RegBodies ==
  {[NoUserBody EXCEPT !.email = Email("a", "x.com"), !.password = "ok"],
   [NoUserBody EXCEPT !.email = Email("c", "x.com"), !.password = "ok"],
   [NoUserBody EXCEPT !.email = Email("b", "zime.ai"), !.password = "ok"]}

\* Registrations that have not yet created their user.
PendingRegisters ==
  {s \in Slots : inflight[s].op = "register" /\ inflight[s].pc \in {"find", "count", "write"}}

StartRegister(s, ubody) ==
  /\ inflight[s].pc = "idle"
  /\ created.users + Cardinality(PendingRegisters) < Len(UserOrder)
  /\ inflight' = [inflight EXCEPT ![s] = NewUserRequest("register", Absent, Absent, ubody)]
  /\ UNCHANGED <<users, projects, tasks, nextTaskId, created, last, perm>>

Count(s) == Advance(s, "count")

RegNext ==
  \E s \in Slots :
    \/ \E ubody \in RegBodies : StartRegister(s, ubody)
    \/ Find(s)
    \/ Count(s)
    \/ Write(s)
    \/ Finish(s)

RegSpec == UserInit /\ [][RegNext]_vars

(***************************************************************************)
(* RaceSpec: updateTask requests that set status to Done on one task,      *)
(* Pending at the start, interleaved at the awaits of the handler.         *)
(***************************************************************************)
RaceTask ==
  [status |-> "Pending", priority |-> "Medium", projectId |-> "p1",
   assignedTo |-> "m", createdBy |-> "a", completedAt |-> Null]

RaceInit ==
  /\ users = InitUsers
  /\ projects = IncProject(InitProjects, "p1", 1, 0)
  /\ tasks = (1 :> RaceTask)
  /\ nextTaskId = 2
  /\ created = [users |-> Len(UserOrder), projects |-> 1]
  /\ inflight = [s \in Slots |-> Idle]
  /\ last = NoLast
  /\ perm = PermIdle

SetDone == [NoBody EXCEPT !.status = "Done"]

RaceNext ==
  \E s \in Slots :
    \/ \E actor \in UserIds : Start(s, "updateTask", actor, 1, SetDone)
    \/ Guard(s)
    \/ Find(s)
    \/ Inc(s)
    \/ Write(s)
    \/ Finish(s)

RaceSpec == RaceInit /\ [][RaceNext]_vars

(***************************************************************************)
(* PermSpec: the permission evaluator and the guard on bounded inputs.     *)
(***************************************************************************)
RoleInputs == ROLES \cup {"guest", Undefined}

ResourceInputs == Resources \cup {"global", "reports"}

BoolStr(b) == IF b THEN "true" ELSE "false"

PermInit ==
  /\ StoreInit
  /\ perm \in [role : RoleInputs, resource : ResourceInputs, action : Actions,
               allowed : {"pending"}, guard : {"pending"}, global : {"pending"}]

CallHasPermission ==
  /\ perm.allowed = "pending"
  /\ perm' = [perm EXCEPT !.allowed = hasPermission(perm.role, perm.resource, perm.action)]
  /\ UNCHANGED <<users, projects, tasks, nextTaskId, created, inflight, last>>

CallRequirePermission ==
  /\ perm.guard = "pending"
  /\ perm' = [perm EXCEPT !.guard = requirePermission(perm.role, perm.resource, perm.action)]
  /\ UNCHANGED <<users, projects, tasks, nextTaskId, created, inflight, last>>

CallHasGlobalAccess ==
  /\ perm.global = "pending"
  /\ perm' = [perm EXCEPT !.global = BoolStr(hasGlobalAccess(perm.role))]
  /\ UNCHANGED <<users, projects, tasks, nextTaskId, created, inflight, last>>

PermNext == CallHasPermission \/ CallRequirePermission \/ CallHasGlobalAccess

PermSpec == PermInit /\ [][PermNext]_vars

(***************************************************************************)
(* Properties of the permission evaluator (PermSpec).                      *)
(***************************************************************************)
\* The matrix as the specification prints it, written out triple by triple.
Matrix ==
  {<<"admin", "projects", "create">>, <<"admin", "projects", "read">>,
   <<"admin", "projects", "update">>, <<"admin", "projects", "delete">>,
   <<"admin", "tasks", "create">>, <<"admin", "tasks", "read">>,
   <<"admin", "tasks", "update">>, <<"admin", "tasks", "delete">>,
   <<"admin", "users", "read">>, <<"admin", "users", "update">>,
   <<"manager", "projects", "read">>, <<"manager", "projects", "update">>,
   <<"manager", "tasks", "create">>, <<"manager", "tasks", "read">>,
   <<"manager", "tasks", "update">>, <<"manager", "tasks", "delete">>,
   <<"manager", "users", "read">>,
   <<"member", "projects", "read">>,
   <<"member", "tasks", "read">>, <<"member", "tasks", "update">>,
   <<"member", "users", "read">>}

\* C1: for every role, resource and action of the matrix's domain,
\* hasPermission answers true exactly for the triples the matrix lists and
\* false for every other triple.
C1_MatrixExact ==
  (perm.allowed # "pending" /\ perm.role \in ROLES /\ perm.resource \in Resources)
    => perm.allowed = BoolStr(<<perm.role, perm.resource, perm.action>> \in Matrix)

\* C1 witness: hasPermission has answered false for (manager, projects, delete).
C1_Witness ==
  /\ perm.role = "manager" /\ perm.resource = "projects" /\ perm.action = "delete"
  /\ perm.allowed = "false"

\* C2: hasPermission fails closed: for a role that is no key of the table, or
\* a resource that is not one of the role's resources (the key 'global'
\* included), it returns false without raising, and requirePermission
\* answers 403 (401 when the request has no role), never an internal failure.
C2_FailsClosed ==
  (perm.role \notin ROLES \/ perm.resource \notin Resources)
    => /\ perm.allowed \in {"pending", "false"}
       /\ perm.guard \in {"pending", IF perm.role = Undefined THEN "401" ELSE "403"}

\* C3: hasGlobalAccess(role) is true if and only if role = admin; it is false
\* for manager, member, an unknown role and a missing role.
C3_GlobalIffAdmin ==
  perm.global # "pending" => (perm.global = "true" <=> perm.role = "admin")

\* C3 witness: hasGlobalAccess has answered false for manager.
C3_Witness == perm.role = "manager" /\ perm.global = "false"

(***************************************************************************)
(* Properties of the task requests (SeqSpec): last is the request just     *)
(* answered, the store is the store after it.                              *)
(***************************************************************************)
PreFound == last.id \in DOMAIN last.preTasks

PreTask == IF PreFound THEN last.preTasks[last.id] ELSE NoTask

StoreUnchanged == tasks = last.preTasks /\ projects = last.preProjects

\* completedTasks of project p before and after the request (0 when missing)
CompletedBefore(p) ==
  IF p \in DOMAIN last.preProjects THEN last.preProjects[p].completedTasks ELSE 0

CompletedAfter(p) ==
  IF p \in DOMAIN projects THEN projects[p].completedTasks ELSE 0

\* C4: an updateTask by a member on an existing task assigned to somebody
\* else is denied whatever keys the body carries, with the 'not your task'
\* message, and changes neither the tasks nor the projects.
C4_NotAssignedDenied ==
  (last.op = "updateTask" /\ last.role = "member" /\ PreFound
     /\ PreTask.assignedTo # last.actor)
    => /\ last.code = "403"
       /\ last.msg = "Members can only update their own assigned tasks"
       /\ StoreUnchanged

\* C4 witness: a member has been denied on somebody else's task with a body
\* whose keys (status and priority) would be disallowed as well.
C4_Witness ==
  /\ last.op = "updateTask" /\ last.role = "member" /\ PreFound
  /\ PreTask.assignedTo # last.actor
  /\ Keys(last.body) = {"status", "priority"}
  /\ last.code = "403"

\* C5: an updateTask by a member on a task assigned to that member passes the
\* authorization if and only if the body's keys are a subset of {status};
\* otherwise it is denied with the 'field not allowed' message and changes
\* neither the tasks nor the projects.
C5_OwnTaskStatusOnly ==
  (last.op = "updateTask" /\ last.role = "member" /\ PreFound
     /\ PreTask.assignedTo = last.actor)
    => /\ last.code # "403" <=> Keys(last.body) \subseteq {"status"}
       /\ ~(Keys(last.body) \subseteq {"status"})
            => /\ last.code = "403"
               /\ last.msg = "Members can only update task status"
               /\ StoreUnchanged

\* C5 witness: a member has changed the status of their own task.
C5_Witness ==
  /\ last.op = "updateTask" /\ last.role = "member" /\ PreFound
  /\ PreTask.assignedTo = last.actor
  /\ Keys(last.body) = {"status"}
  /\ last.code = "200"
  /\ tasks[last.id].status # PreTask.status

\* C6: every stored task has completedAt set if and only if its status is
\* Done.
C6_CompletedAtIffDone ==
  \A t \in DOMAIN tasks : tasks[t].completedAt # Null <=> tasks[t].status = "Done"

\* C7: every project has completedTasks <= totalTasks, in every state,
\* between the writes of a request and under interleaved requests (Spec).
C7_CompletedLeTotal ==
  \A p \in DOMAIN projects : projects[p].completedTasks <= projects[p].totalTasks

\* A successful updateTask on a task that existed.
UpdatedOk == last.op = "updateTask" /\ last.code = "200" /\ PreFound

\* C8: a successful updateTask with status Done on a task that is not Done
\* adds exactly 1 to its project's completedTasks and sets completedAt; on a
\* task that is already Done it changes neither completedTasks nor
\* completedAt.
C8_IntoDoneOnce ==
  (UpdatedOk /\ last.body.status = "Done")
    => IF PreTask.status # "Done"
       THEN /\ CompletedAfter(PreTask.projectId) = CompletedBefore(PreTask.projectId) + 1
            /\ tasks[last.id].completedAt # Null
       ELSE /\ projects = last.preProjects
            /\ tasks[last.id].completedAt = PreTask.completedAt

\* C9: a successful updateTask that moves a Done task to Pending, Ongoing or
\* Blocked clears completedAt and subtracts exactly 1 from its project's
\* completedTasks; one that keeps a task among the states other than Done, or
\* carries no status, changes neither the counters nor completedAt.
C9_OutOfDone ==
  UpdatedOk
    => /\ (PreTask.status = "Done" /\ last.body.status \in Statuses \ {"Done"})
            => /\ tasks[last.id].completedAt = Null
               /\ CompletedAfter(PreTask.projectId) = CompletedBefore(PreTask.projectId) - 1
       /\ (\/ PreTask.status # "Done" /\ last.body.status \in Statuses \ {"Done"}
           \/ last.body.status = Absent)
            => /\ projects = last.preProjects
               /\ tasks[last.id].completedAt = PreTask.completedAt

\* C10: the counter write and the task write of an updateTask are one unit:
\* when the task write fails, the projects are as they were before the
\* request, and when a request that moves the task into or out of Done
\* succeeds, completedTasks has moved by exactly 1 (so a failure followed by
\* a successful retry moves it by 1 in total).
C10_CounterAndTaskOneUnit ==
  /\ (last.op = "updateTask" /\ last.code = "error") => projects = last.preProjects
  /\ (UpdatedOk /\ last.body.status \in Statuses
        /\ (PreTask.status = "Done") # (last.body.status = "Done"))
       => CompletedAfter(PreTask.projectId)
            = CompletedBefore(PreTask.projectId)
                + (IF last.body.status = "Done" THEN 1 ELSE -1)

\* totalTasks of project p before and after the request (0 when missing)
TotalBefore(p) ==
  IF p \in DOMAIN last.preProjects THEN last.preProjects[p].totalTasks ELSE 0

TotalAfter(p) ==
  IF p \in DOMAIN projects THEN projects[p].totalTasks ELSE 0

\* C11: a successful deleteTask subtracts exactly 1 from the totalTasks of the
\* task's project, and exactly 1 from its completedTasks if and only if the
\* task was Done; a deleteTask (by a caller the route lets through) for a
\* task that does not exist answers 404 and leaves the projects as they were.
C11_DeleteCounters ==
  last.op = "deleteTask"
    => /\ (last.code = "200" /\ PreFound)
            => /\ TotalAfter(PreTask.projectId) = TotalBefore(PreTask.projectId) - 1
               /\ CompletedAfter(PreTask.projectId)
                    = CompletedBefore(PreTask.projectId)
                        - (IF PreTask.status = "Done" THEN 1 ELSE 0)
               /\ last.id \notin DOMAIN tasks
       /\ (~PreFound /\ last.role \in {"admin", "manager"})
            => last.code = "404" /\ projects = last.preProjects

\* C11 witness: a task that was not Done has been deleted; totalTasks went
\* down and completedTasks stayed.
C11_Witness ==
  /\ last.op = "deleteTask" /\ last.code = "200" /\ PreFound
  /\ PreTask.status # "Done"
  /\ TotalAfter(PreTask.projectId) = TotalBefore(PreTask.projectId) - 1
  /\ CompletedAfter(PreTask.projectId) = CompletedBefore(PreTask.projectId)

\* The stored tasks of project p, and those of them that are Done.
TasksOf(p) == {t \in DOMAIN tasks : tasks[t].projectId = p}

DoneTasksOf(p) == {t \in TasksOf(p) : tasks[t].status = "Done"}

\* C12: when requests run one at a time and no store write fails
\* (NoFailSpec), after every request each project's totalTasks is the number
\* of stored tasks of the project and its completedTasks the number of those
\* that are Done.
C12_CountersMatchTasks ==
  \A p \in DOMAIN projects :
    /\ projects[p].totalTasks = Cardinality(TasksOf(p))
    /\ projects[p].completedTasks = Cardinality(DoneTasksOf(p))

\* C14: a deleteTask on an existing task succeeds exactly when the caller is
\* an admin, or a manager who created the task's project; a delete that is
\* rejected leaves the tasks and the projects unchanged.
C14_DeleteRights ==
  (last.op = "deleteTask" /\ PreFound)
    => /\ last.code = "200"
            <=> \/ last.role = "admin"
                \/ /\ last.role = "manager"
                   /\ PreTask.projectId \in DOMAIN last.preProjects
                   /\ last.preProjects[PreTask.projectId].createdBy = last.actor
       /\ last.code # "200" => StoreUnchanged

(***************************************************************************)
(* Properties of the user and auth requests (UserSpec): last is the        *)
(* request just answered, last.preUsers the accounts before it.            *)
(***************************************************************************)
\* The accounts that exist before and after the request.
Surviving == DOMAIN users \cap DOMAIN last.preUsers

RolesKept == \A u \in Surviving : users[u].role = last.preUsers[u].role

\* The actor was authenticated as an admin and names their own account.
AdminOnSelf ==
  /\ last.actor \in DOMAIN last.preUsers
  /\ last.preUsers[last.actor].role = "admin"
  /\ castObjectId(last.target) = last.actor

\* C15: a request by an admin on their own account, through updateUserRole or
\* updateUser, that carries the role manager or member is rejected and the
\* stored role stays admin; one that carries the role admin succeeds and the
\* stored role stays admin.
C15_NoSelfDemotion ==
  (last.op \in {"updateUser", "updateUserRole"} /\ AdminOnSelf
     /\ last.ubody.role \in ROLES)
    => /\ last.code = "200" <=> last.ubody.role = "admin"
       /\ users[last.actor].role = "admin"

\* C16: when the role of an existing account differs before and after a
\* request, the request was authenticated and its actor had the role admin;
\* so no request of a manager or member, no request without a token, and no
\* login, updateProfile or changePassword changes a role.
C16_RoleChangeOnlyByAdmin ==
  ~RolesKept
    => /\ last.actor \in DOMAIN last.preUsers
       /\ last.preUsers[last.actor].role = "admin"
       /\ last.op \notin {"login", "register", "updateProfile", "changePassword"}

\* C16 witness: a manager has asked for a role change of another account and
\* has been answered 403; no role has changed.
C16_Witness ==
  /\ last.op = "updateUserRole" /\ last.ubody.role = "admin"
  /\ last.actor \in DOMAIN last.preUsers
  /\ last.preUsers[last.actor].role = "manager"
  /\ castObjectId(last.target) \in DOMAIN last.preUsers \ {last.actor}
  /\ last.code = "403"
  /\ users = last.preUsers

\* C17: a deleteUser whose target is the account of its authenticated actor
\* is rejected, and the accounts are as they were before the request.
C17_NoSelfDelete ==
  (last.op = "deleteUser" /\ last.actor \in DOMAIN last.preUsers
     /\ castObjectId(last.target) = last.actor)
    => /\ last.code # "200"
       /\ last.actor \in DOMAIN users
       /\ users = last.preUsers

\* The account a successful register has created.
Registered == DOMAIN users \ DOMAIN last.preUsers

RegisteredOk == last.op = "register" /\ last.code = "201"

\* C18 as stated: the account register creates is admin if and only if no
\* account existed or the address ends with '@zime.ai' as written, and
\* member otherwise, whatever role the body carries.
C18_RoleAtRegistrationLiteral ==
  RegisteredOk
    => /\ Cardinality(Registered) = 1
       /\ \A u \in Registered :
            /\ users[u].email = last.ubody.email
            /\ users[u].role =
                 IF DOMAIN last.preUsers = {} \/ users[u].email.domain = "zime.ai"
                 THEN "admin" ELSE "member"

\* C18 (amended): the account register creates is admin if and only if no
\* account existed or the address ends with '@zime.ai' when letter case is
\* ignored, and member otherwise, whatever role the body carries; so a@x.com
\* first, then b@zime.ai, then c@x.com are admin, admin, member.
C18_RoleAtRegistration ==
  RegisteredOk
    => /\ Cardinality(Registered) = 1
       /\ \A u \in Registered :
            /\ users[u].email = last.ubody.email
            /\ users[u].role =
                 IF DOMAIN last.preUsers = {}
                      \/ users[u].email.domain \in {"zime.ai", "ZIME.AI"}
                 THEN "admin" ELSE "member"

\* C18 witness: a@x.com, b@zime.ai and c@x.com have registered in this order,
\* the third with the role admin in its body, and are admin, admin, member.
C18_Witness ==
  /\ RegisteredOk /\ Registered = {"m"} /\ last.ubody.role = "admin"
  /\ DOMAIN users = {"a", "g", "m"}
  /\ users["a"].email = Email("a", "x.com") /\ users["a"].role = "admin"
  /\ users["g"].email = Email("b", "zime.ai") /\ users["g"].role = "admin"
  /\ users["m"].email = Email("c", "x.com") /\ users["m"].role = "member"

\* C19: login, updateProfile, changePassword, the deletion of an account and
\* an updateUser that carries an e-mail address and no role leave the role
\* of every account that exists before and after the request unchanged.
C19_RoleOnlyAtCreation ==
  (\/ last.op \in {"login", "updateProfile", "changePassword", "deleteUser"}
   \/ last.op = "updateUser" /\ last.ubody.role = Absent)
    => RolesKept

\* C19 witness: an admin has changed the address of a member to one of the
\* privileged domain, and the member is still a member.
C19_Witness ==
  /\ last.op = "updateUser" /\ last.code = "200"
  /\ last.ubody.email = Email("b", "zime.ai")
  /\ LET u == castObjectId(last.target)
     IN  /\ u \in Surviving
         /\ last.preUsers[u].email.domain = "x.com"
         /\ users[u].email = Email("b", "zime.ai")
         /\ users[u].role = "member"

(***************************************************************************)
(* Properties of the project requests (ProjSpec).                          *)
(***************************************************************************)
\* The tasks of project p before the request.
PreTasksOf(p) == {t \in DOMAIN last.preTasks : last.preTasks[t].projectId = p}

\* C13: after a successful deleteProject of P no stored task has projectId P
\* and P is not stored, while every task of another project is stored as it
\* was; and a getTaskById for a task that is not stored (as every task that
\* belonged to a deleted project), like a getProjectById for a project that
\* is not stored, answers 404.
C13_DeleteProjectCascade ==
  /\ (last.op = "deleteProject" /\ last.code = "200")
       => /\ last.target \notin DOMAIN projects
          /\ TasksOf(last.target) = {}
          /\ \A t \in DOMAIN last.preTasks \ PreTasksOf(last.target) :
               t \in DOMAIN tasks /\ tasks[t] = last.preTasks[t]
          /\ \A t \in PreTasksOf(last.target) : t \notin DOMAIN tasks
  /\ (last.op = "getTaskById" /\ last.id \notin DOMAIN tasks) => last.code = "404"
  /\ (last.op = "getProjectById" /\ last.target \notin DOMAIN projects)
       => last.code = "404"

\* C13 witness: a project that had a task has been deleted, and the task
\* with it.
C13_Witness ==
  /\ last.op = "deleteProject" /\ last.code = "200"
  /\ PreTasksOf(last.target) # {}
  /\ tasks = [t \in {} |-> NoTask]

\* The projects that match the filters of the listing just answered.
MatchesFilters(p) ==
  /\ last.pbody.status # Absent => projects[p].status = last.pbody.status
  /\ last.pbody.search # Absent
       => \/ regexTest(last.pbody.search, projects[p].name)
          \/ regexTest(last.pbody.search, projects[p].description)

\* C20: getAllProjects returns, to a caller who is not an admin, exactly the
\* projects that match the filters and have the caller as creator or among
\* the members, for every combination of the status and the search filter;
\* to an admin it returns exactly the projects that match the filters.
C20_ListScoped ==
  (last.op = "getAllProjects" /\ last.code = "200")
    => last.result =
         {p \in DOMAIN projects :
            /\ MatchesFilters(p)
            /\ \/ last.role = "admin"
               \/ projects[p].createdBy = last.actor
               \/ last.actor \in projects[p].members}

\* C20 witness: the admin a has created p2 without members, and the member m
\* has listed the projects with a search term that p2 matches: p2 is not in
\* the answer.
C20_Witness ==
  /\ last.op = "getAllProjects" /\ last.code = "200" /\ last.actor = "m"
  /\ last.pbody.search = "alpha"
  /\ "p2" \in DOMAIN projects
  /\ projects["p2"].createdBy = "a" /\ projects["p2"].members = {}
  /\ "p2" \notin last.result

\* C22: a createProject or deleteProject by a manager or member is answered
\* 403 and leaves the projects and the tasks unchanged; and the route admits
\* the request (answers neither 401 nor 403) exactly when hasPermission(role,
\* 'projects', 'create' / 'delete') is true.
C22_ProjectsByAdminOnly ==
  (last.op \in {"createProject", "deleteProject"} /\ last.actor \in DOMAIN last.preUsers)
    => LET role == last.preUsers[last.actor].role
           action == IF last.op = "createProject" THEN "create" ELSE "delete"
       IN  /\ role \in {"manager", "member"} => last.code = "403" /\ StoreUnchanged
           /\ last.code \notin {"401", "403"}
                <=> hasPermission(role, "projects", action) = "true"

\* C22 witness: a manager has asked to delete a stored project and has been
\* answered 403; the project is still stored.
C22_Witness ==
  /\ last.op = "deleteProject" /\ last.actor \in DOMAIN last.preUsers
  /\ last.preUsers[last.actor].role = "manager"
  /\ last.target \in DOMAIN last.preProjects
  /\ last.code = "403"
  /\ last.target \in DOMAIN projects

\* C25: a getProjectById by a caller who is not an admin and is neither the
\* creator nor a member of the project is rejected.
C25_ProjectReadScoped ==
  (last.op = "getProjectById" /\ last.actor \in DOMAIN last.preUsers
     /\ last.target \in DOMAIN last.preProjects
     /\ last.preUsers[last.actor].role # "admin"
     /\ last.preProjects[last.target].createdBy # last.actor
     /\ last.actor \notin last.preProjects[last.target].members)
    => last.code # "200"

\* C23: after a createProject or updateProject, whatever its body, every
\* project that was stored before has the totalTasks, completedTasks and
\* createdBy it had, and a project the request has created has both counters
\* 0 and the caller as createdBy.
C23_DerivedFieldsProtected ==
  last.op \in {"createProject", "updateProject"}
    => \A p \in DOMAIN projects :
         IF p \in DOMAIN last.preProjects
         THEN /\ projects[p].totalTasks = last.preProjects[p].totalTasks
              /\ projects[p].completedTasks = last.preProjects[p].completedTasks
              /\ projects[p].createdBy = last.preProjects[p].createdBy
         ELSE /\ projects[p].totalTasks = 0
              /\ projects[p].completedTasks = 0
              /\ projects[p].createdBy = last.actor

\* C24: after an updateTask, whatever its body and the role of its caller,
\* the task has the projectId and the createdBy it had before.
C24_TaskOwnerImmutable ==
  (last.op = "updateTask" /\ PreFound /\ last.id \in DOMAIN tasks)
    => /\ tasks[last.id].projectId = PreTask.projectId
       /\ tasks[last.id].createdBy = PreTask.createdBy

(***************************************************************************)
(* Claims on the guards, under AuthSpec.                                   *)
(***************************************************************************)
UsersUnchanged == users = last.preUsers

\* The request last answered failed authenticate: no token, a token that
\* verifyToken rejects, no user of the token's id, or a deactivated user.
NotAuthenticated ==
  \/ last.actor = Absent
  \/ ~last.token.valid
  \/ last.actor \notin DOMAIN last.preUsers
  \/ ~last.preUsers[last.actor].isActive

GuardMessages ==
  {"No token provided", "Invalid token", "User not found", "User account is deactivated"}

\* C21: a request that fails authenticate is answered 401 by authenticate,
\* whatever its route; one that passes authenticate and whose stored role the
\* route's guard does not admit is answered 403 by the guard; in both cases
\* the users, the tasks and the projects are as they were before the request.
C21_GuardsBeforeHandler ==
  last.op # "none" =>
    /\ NotAuthenticated =>
         /\ last.code = "401" /\ last.msg \in GuardMessages
         /\ StoreUnchanged /\ UsersUnchanged
    /\ (~NotAuthenticated
          /\ RouteGuard(last.op, last.preUsers[last.actor].role) # "next") =>
         /\ last.code = "403" /\ last.msg = "Insufficient permissions"
         /\ StoreUnchanged /\ UsersUnchanged

\* C21 witness: the manager g, deactivated by the admin, has sent an update of
\* an existing task to Done with the token issued before, and got 401.
C21_Witness ==
  /\ last.op = "updateTask" /\ last.actor = "g" /\ last.token.valid
  /\ "g" \in DOMAIN last.preUsers /\ ~last.preUsers["g"].isActive
  /\ last.id \in DOMAIN tasks /\ tasks[last.id].status # "Done"
  /\ last.code = "401"

\* C26: a getAllUsers or getUserById request by an authenticated caller whose
\* stored role is member is answered 403.
C26_UserReadsNotForMembers ==
  (last.op \in {"getAllUsers", "getUserById"} /\ ~NotAuthenticated
     /\ last.preUsers[last.actor].role = "member") => last.code = "403"

\* C29: a request with a token verifyToken accepts is answered 401 when the
\* user of the token is not stored or is stored as deactivated; otherwise the
\* role the guard and the handler use is the stored role, and the guard
\* answers 403 exactly when the route does not admit the stored role,
\* whatever role the token carries.
C29_StoredRoleDecides ==
  (last.op # "none" /\ last.actor # Absent /\ last.token.valid) =>
    IF NotAuthenticated
    THEN last.code = "401" /\ StoreUnchanged /\ UsersUnchanged
    ELSE /\ last.role = last.preUsers[last.actor].role
         /\ (last.code = "403" /\ last.msg = "Insufficient permissions")
              <=> RouteGuard(last.op, last.preUsers[last.actor].role) = "403"

\* C29 witness: g holds a token issued when g was manager; the admin has made
\* g a member; g's deleteTask of an existing task, which the route admits for
\* a manager, is answered 403 and the task is still there.
C29_Witness ==
  /\ last.op = "deleteTask" /\ last.actor = "g"
  /\ last.token = [valid |-> TRUE, role |-> "manager"]
  /\ "g" \in DOMAIN last.preUsers
  /\ last.preUsers["g"].role = "member" /\ last.preUsers["g"].isActive
  /\ RouteGuard("deleteTask", last.token.role) = "next"
  /\ last.code = "403" /\ last.id \in DOMAIN tasks

(***************************************************************************)
(* Claims on concurrent requests, under RegSpec and RaceSpec.              *)
(***************************************************************************)
\* C27: among the accounts registered with an address outside the privileged
\* domain, at most one has the role admin, in every interleaving of the
\* registrations.
C27_OneFirstAdmin ==
  Cardinality({u \in DOMAIN users :
                 users[u].role = "admin" /\ ~isZimeEmail(users[u].email)}) <= 1

\* Both slots hold an updateTask of task 1 to Done that read the task as not
\* Done and has been answered 200.
BothSetDone ==
  \A s \in Slots :
    /\ inflight[s].op = "updateTask" /\ inflight[s].id = 1
    /\ inflight[s].body.status = "Done"
    /\ inflight[s].cur.status \in Statuses \ {"Done"}
    /\ inflight[s].pc = "done" /\ inflight[s].code = "200"

\* C28: when the concurrent updates of task 1 to Done, each of which read the
\* task as not Done, have all finished, completedTasks of its project has
\* grown by exactly 1: from 0 to 1.
C28_CompletedOnce ==
  BothSetDone => projects["p1"].completedTasks = 1

\* C30: an updateUserRole, updateUser or deleteUser request whose actor
\* passed the admin guard, made in a state with a user of role admin, leaves
\* a user of role admin.
C30_AdminRemains ==
  (/\ last.op \in {"updateUserRole", "updateUser", "deleteUser"}
   /\ last.actor \in DOMAIN last.preUsers
   /\ last.preUsers[last.actor].isActive
   /\ last.preUsers[last.actor].role = "admin")
    => \E u \in DOMAIN users : users[u].role = "admin"

====
